---- MODULE Spec2Model ----
(***************************************************************************)
(* Model of the Relay static environment: the query / mutation /           *)
(* subscription lifecycle of RelayStaticEnvironment over the publish queue *)
(* and the network layer of RelayNetwork.                                  *)
(*                                                                         *)
(* JavaScript is single threaded: every action below is one whole handler  *)
(* (a method call, a dispose call, or a promise callback) run to its end.  *)
(* RelayPublishQueue and normalizeRelayPayload are not part of the source  *)
(* tree at hand; they are modelled from the written specification.         *)
(***************************************************************************)
EXTENDS Integers, Sequences, FiniteSets, TLC

\* ---------------------------------------------------------------- bounds
NumOps == 2          \* operations issued through the environment
MaxDispose == 2      \* dispose() calls made in one run, on any handles
MaxBatch == 3        \* queue mutations made in one batch without a run

Ops == 1..NumOps

\* ------------------------------------------------------------ data model
Null == "null"
ROOT_ID == "client:root"
Fields == {"likeCount", "viewCount"}

\* the record state of the store before anything was fetched
InitialRecords == [f \in Fields |-> IF f = "likeCount" THEN 10 ELSE 0]

\* Store updaters a caller can pass (StoreUpdater / SelectorStoreUpdater):
\* pure functions from the record state to the record state.
UpdaterFns == {"inc", "dbl"}

\* an updater that throws when the queue invokes it
FaultyUpdater == "throw"

ApplyFn(fn, records) ==
    CASE fn = "inc" -> [records EXCEPT !["likeCount"] = @ + 1]
      [] fn = "dbl" -> [records EXCEPT !["likeCount"] = @ * 2]
      [] OTHER -> records

\* Raw responses of the fetch function: {data, errors}.  A JSON object is a
\* list of key/value pairs; errors is absent, empty or a list of messages.
DataValues == { << <<"likeCount", 42>> >>,
                << <<"viewCount", 7>> >> }
ErrorsValues == { [present |-> FALSE, list |-> <<>>],
                  [present |-> TRUE,  list |-> <<>>],
                  [present |-> TRUE,  list |-> <<"boom">>] }
RawResponses ==
    [hasData : {TRUE}, data : DataValues, errors : ErrorsValues]
      \cup [hasData : {FALSE}, data : {<<>>}, errors : ErrorsValues]

\* The responses the lifecycle specification draws from: a mutation is
\* answered with the confirmed likeCount, a query or a subscription with the
\* viewCount, and either may come back without data.
MutationData == << <<"likeCount", 42>> >>
QueryData == << <<"viewCount", 7>> >>
NoDataResponse ==
    [hasData |-> FALSE, data |-> <<>>,
     errors |-> [present |-> TRUE, list |-> <<"boom">>]]
DataResponse(data) ==
    [hasData |-> TRUE, data |-> data,
     errors |-> [present |-> FALSE, list |-> <<>>]]
MutationResponses == {DataResponse(MutationData), NoDataResponse}
QueryResponses == {DataResponse(QueryData), NoDataResponse}
DirectData == {QueryData}

\* Every raw response the fetch function can give to a mutation, and to a
\* query or a subscription: data or none, with errors absent, empty or not.
MutationRawResponses ==
    {raw \in RawResponses : raw.hasData => raw.data = MutationData}
QueryRawResponses ==
    {raw \in RawResponses : raw.hasData => raw.data = QueryData}

\* the variables the caller passes with its o-th operation
Variables(o) == <<"input", o>>
\* The updaters the caller passes with its o-th operation: to applyUpdate,
\* and to sendMutation as <<optimisticUpdater, updater>>.
UpdateUpdaters(o) == IF o % 2 = 1 THEN {"dbl"} ELSE {"inc"}
MutationUpdaters(o) ==
    LET fn == IF o % 2 = 1 THEN "inc" ELSE "dbl"
    IN {<<Null, Null>>, <<fn, Null>>, <<fn, "inc">>}
\* ... and with an updater that throws
FaultyMutationUpdaters(o) ==
    {<<IF o % 2 = 1 THEN "inc" ELSE "dbl", FaultyUpdater>>}

NoSource ==
    [errors |-> [present |-> FALSE, list |-> <<>>], operation |-> 0,
     variables |-> <<>>]
NoError == [name |-> "none", detail |-> <<>>, source |-> NoSource]
TransportError == [name |-> "TransportError", detail |-> <<>>, source |-> NoSource]
CallbackError == [name |-> "CallbackError", detail |-> <<>>, source |-> NoSource]
UpdaterError == [name |-> "UpdaterError", detail |-> <<>>, source |-> NoSource]

\* ------------------------------------------------- payload normalization
\* normalizeRelayPayload: the raw data object becomes a set of field writes
\* on the root record.
normalizeRelayPayload(data) ==
    { <<ROOT_ID, data[i][1], data[i][2]>> : i \in 1..Len(data) }

\* The lines of the message of the no-data error: the joined error messages,
\* or the placeholder when `errors` is falsy.  An empty array is truthy.
NoDataDetail(errors) ==
    IF errors.present THEN errors.list ELSE <<"(No errors)">>

\* faulty variant: a response without data and without an errors list is
\* passed on as an empty payload
normalizePayloadLenient(operation, variables, raw) ==
    IF raw.hasData \/ ~raw.errors.present
    THEN [ok |-> TRUE,
          payload |-> normalizeRelayPayload(raw.data),
          warned |-> raw.errors.present /\ Len(raw.errors.list) > 0,
          error |-> NoError]
    ELSE [ok |-> FALSE,
          payload |-> {},
          warned |-> FALSE,
          error |-> [name |-> "RelayNetwork",
                     detail |-> NoDataDetail(raw.errors),
                     source |-> [errors |-> raw.errors, operation |-> operation,
                                 variables |-> variables]]]

\* faulty variant: errors next to data are not reported
normalizePayloadSilent(operation, variables, raw) ==
    IF raw.hasData
    THEN [ok |-> TRUE,
          payload |-> normalizeRelayPayload(raw.data),
          warned |-> FALSE,
          error |-> NoError]
    ELSE [ok |-> FALSE,
          payload |-> {},
          warned |-> FALSE,
          error |-> [name |-> "RelayNetwork",
                     detail |-> NoDataDetail(raw.errors),
                     source |-> [errors |-> raw.errors, operation |-> operation,
                                 variables |-> variables]]]

\* normalizePayload of RelayNetwork: a payload plus the warning flag, or the
\* error that is thrown.
normalizePayload(operation, variables, raw) ==
    IF raw.hasData
    THEN [ok |-> TRUE,
          payload |-> normalizeRelayPayload(raw.data),
          warned |-> raw.errors.present /\ Len(raw.errors.list) > 0,
          error |-> NoError]
    ELSE [ok |-> FALSE,
          payload |-> {},
          warned |-> FALSE,
          error |-> [name |-> "RelayNetwork",
                     detail |-> NoDataDetail(raw.errors),
                     source |-> [errors |-> raw.errors, operation |-> operation,
                                 variables |-> variables]]]

\* ---------------------------------------------------------- publish queue
\* A world is the publish queue together with the store it publishes to:
\*   entries  the pending entries in insertion order
\*   base     the confirmed record state
\*   store    the record state readers see
CommitEntry(payload, updater) ==
    [kind |-> "commit", ref |-> 0, fn |-> updater, payload |-> payload]
OptimisticEntry(ref, fn) ==
    [kind |-> "optimisticUpdate", ref |-> ref, fn |-> fn, payload |-> {}]

PublishWrites(records, payload) ==
    [f \in Fields |->
        IF \E w \in payload : w[1] = ROOT_ID /\ w[2] = f
        THEN (CHOOSE w \in payload : w[1] = ROOT_ID /\ w[2] = f)[3]
        ELSE records[f]]

QueueApplyUpdate(w, ref, fn) ==
    [w EXCEPT !.entries = Append(@, OptimisticEntry(ref, fn))]

QueueRevertUpdate(w, ref) ==
    [w EXCEPT !.entries =
        SelectSeq(@, LAMBDA e : ~(e.kind = "optimisticUpdate" /\ e.ref = ref))]

QueueCommitPayload(w, payload, updater) ==
    [w EXCEPT !.entries = Append(@, CommitEntry(payload, updater))]

RECURSIVE FoldEntries(_, _, _)
FoldEntries(records, entries, kind) ==
    IF entries = <<>> THEN records
    ELSE LET e == Head(entries)
             next == IF e.kind # kind THEN records
                     ELSE IF kind = "commit"
                          THEN ApplyFn(e.fn, PublishWrites(records, e.payload))
                          ELSE ApplyFn(e.fn, records)
         IN FoldEntries(next, Tail(entries), kind)

\* a commit whose updater throws: the entry is rejected whole
Throws(e) == e.kind = "commit" /\ e.fn = FaultyUpdater

\* run throws on world w
RunThrows(w) == \E i \in 1..Len(w.entries) : Throws(w.entries[i])

\* faulty variant: the payload of a commit whose updater throws stays written
QueueRunPartial(w) ==
    LET newBase == FoldEntries(w.base, w.entries, "commit")
    IN [entries |-> SelectSeq(w.entries, LAMBDA e : e.kind = "optimisticUpdate"),
        base |-> newBase,
        store |-> FoldEntries(newBase, w.entries, "optimisticUpdate")]

QueueRun(w) ==
    LET sound == SelectSeq(w.entries, LAMBDA e : ~Throws(e))
        newBase == FoldEntries(w.base, sound, "commit")
    IN [entries |-> SelectSeq(w.entries, LAMBDA e : e.kind = "optimisticUpdate"),
        base |-> newBase,
        store |-> FoldEntries(newBase, w.entries, "optimisticUpdate")]

\* the optimistic entry with reference ref is in the queue of world w
Queued(w, ref) ==
    \E i \in 1..Len(w.entries) :
        w.entries[i].kind = "optimisticUpdate" /\ w.entries[i].ref = ref

\* world w has been run: no commit is pending and its store is the confirmed
\* base with the queued optimistic entries on top
Layered(w) ==
    /\ w.store = FoldEntries(w.base, w.entries, "optimisticUpdate")
    /\ \A i \in 1..Len(w.entries) : w.entries[i].kind = "optimisticUpdate"

\* ------------------------------------------------------ handler commands
\* What a handler does is a list of commands in program order: calls on the
\* publish queue and invocations of the caller's callbacks.
Cmd(c, ref, fn, payload) == [c |-> c, ref |-> ref, fn |-> fn, payload |-> payload]
ApplyUpdateCmd(ref, fn) == Cmd("applyUpdate", ref, fn, {})
RevertUpdateCmd(ref) == Cmd("revertUpdate", ref, Null, {})
CommitPayloadCmd(payload, updater) == Cmd("commitPayload", 0, updater, payload)
RunCmd == Cmd("run", 0, Null, {})
CallbackCmd(name) == Cmd(name, 0, Null, {})

QueueCmds == {"applyUpdate", "revertUpdate", "commitPayload", "run"}

\* One command on a world.  `skip` names an update reference whose
\* applyUpdate is left out (0: none), `eager` runs the queue after every
\* queue mutation.
ExecCmd(w, cmd, skip, eager) ==
    LET w1 == CASE cmd.c = "applyUpdate" ->
                     IF cmd.ref = skip THEN w
                     ELSE QueueApplyUpdate(w, cmd.ref, cmd.fn)
                [] cmd.c = "revertUpdate" -> QueueRevertUpdate(w, cmd.ref)
                [] cmd.c = "commitPayload" ->
                     QueueCommitPayload(w, cmd.payload, cmd.fn)
                [] cmd.c = "run" -> QueueRun(w)
                [] OTHER -> w
    IN IF eager /\ cmd.c \in QueueCmds THEN QueueRun(w1) ELSE w1

RECURSIVE Exec(_, _, _, _)
Exec(w, cmds, skip, eager) ==
    IF cmds = <<>> THEN w
    ELSE Exec(ExecCmd(w, Head(cmds), skip, eager), Tail(cmds), skip, eager)

\* the commands of a handler that are executed on world w: the handler ends
\* at a run that throws
RECURSIVE Executed(_, _)
Executed(w, cmds) ==
    IF cmds = <<>> THEN <<>>
    ELSE IF Head(cmds).c = "run" /\ RunThrows(w) THEN <<Head(cmds)>>
    ELSE <<Head(cmds)>>
           \o Executed(ExecCmd(w, Head(cmds), 0, FALSE), Tail(cmds))

RECURSIVE Names(_)
Names(cmds) ==
    IF cmds = <<>> THEN <<>> ELSE <<Head(cmds).c>> \o Names(Tail(cmds))

\* ------------------------------------------------------------------ state
VARIABLES
    publishQueue,       \* the world of the environment: _publishQueue, _store
    kind,               \* per operation: which method issued it
    status,             \* per operation: where its promise chain stands
    isDisposed,         \* per operation: the closure's isDisposed flag
    optimisticUpdater,  \* per operation: the closure's optimisticUpdater
    updater,            \* per operation: the updater passed to sendMutation
    log,                \* per operation: queue calls and callbacks it made
    delivered,          \* per operation: the error its onError received
    warned,             \* per operation: normalizePayload emitted a warning
    disposeCalls,       \* dispose() calls made so far, on any handle
    ghost,              \* per operation: the world had its optimistic update
                        \* never been applied
    eager,              \* the world had run() followed every queue mutation
    batch,              \* queue mutations made on the queue directly, not run
    requestSaw,         \* per mutation: what the store showed when the
                        \* transport request was issued
    config,             \* per mutation issued by commitRelayStaticMutation:
                        \* whether config.onCompleted was supplied
    snapshot            \* per mutation issued by commitRelayStaticMutation:
                        \* the data looked up for config.onCompleted

vars == <<publishQueue, kind, status, isDisposed, optimisticUpdater, updater,
          log, delivered, warned, disposeCalls, ghost, eager, batch,
          requestSaw, config, snapshot>>

\* what environment.lookup returns on world w, and no lookup made
Lookup(w) == [looked |-> TRUE, data |-> w.store]
NoSnapshot == [looked |-> FALSE, data |-> InitialRecords]

InitialWorld ==
    [entries |-> <<>>, base |-> InitialRecords, store |-> InitialRecords]

Init ==
    /\ publishQueue = InitialWorld
    /\ kind = [o \in Ops |-> "none"]
    /\ status = [o \in Ops |-> "idle"]
    /\ isDisposed = [o \in Ops |-> FALSE]
    /\ optimisticUpdater = [o \in Ops |-> Null]
    /\ updater = [o \in Ops |-> Null]
    /\ log = [o \in Ops |-> <<>>]
    /\ delivered = [o \in Ops |-> NoError]
    /\ warned = [o \in Ops |-> FALSE]
    /\ disposeCalls = 0
    /\ ghost = [o \in Ops |-> InitialWorld]
    /\ eager = InitialWorld
    /\ batch = <<>>
    /\ requestSaw = [o \in Ops |-> "none"]
    /\ config = [o \in Ops |-> "none"]
    /\ snapshot = [o \in Ops |-> NoSnapshot]

\* Run the commands of a handler of operation o (0: no operation) on the
\* world and on its shadows, and record them.
\* the commands of a handler that precede its first invocation of name
RECURSIVE Before(_, _)
Before(cmds, name) ==
    IF cmds = <<>> \/ Head(cmds).c = name THEN <<>>
    ELSE <<Head(cmds)>> \o Before(Tail(cmds), name)

\* faulty variant: the store is read whether or not the caller takes the data
StaticOnCompletedAlways(o, w) == Lookup(w)

\* the onCompleted commitRelayStaticMutation hands to sendMutation, invoked
\* on world w: the data it looks up for the caller's onCompleted, if any
StaticOnCompleted(o, w) ==
    IF config[o] = "supplied" THEN Lookup(w) ELSE NoSnapshot

PerformCmds(o, cmds) ==
    LET done == Executed(publishQueue, cmds)
    IN /\ publishQueue' = Exec(publishQueue, done, 0, FALSE)
       /\ snapshot' =
             IF o = 0 THEN snapshot
             ELSE IF config[o] = "none" \/ Before(done, "onCompleted") = done
             THEN snapshot
             ELSE [snapshot EXCEPT ![o] =
                     StaticOnCompleted(o, Exec(publishQueue,
                                               Before(done, "onCompleted"),
                                               0, FALSE))]
       /\ ghost' = [p \in Ops |-> Exec(ghost[p], done, p, FALSE)]
       /\ eager' = Exec(eager, done, 0, TRUE)
       /\ log' = IF o = 0 THEN log ELSE [log EXCEPT ![o] = @ \o Names(done)]
       /\ UNCHANGED batch

\* a handler that issues no mutation request
Perform(o, cmds) ==
    /\ PerformCmds(o, cmds)
    /\ UNCHANGED <<requestSaw, config>>

\* Operations are numbered in the order they are issued.
CanIssue(o) ==
    /\ kind[o] = "none"
    /\ \A p \in Ops : p < o => kind[p] # "none"

\* ------------------------------------------- Environment.applyUpdate etc.
ApplyUpdateCmds(o, fn) == <<ApplyUpdateCmd(o, fn), RunCmd>>

\* faulty variant: the queue is not run after the revert
ApplyUpdateDisposeCmdsNoRun(o) == <<RevertUpdateCmd(o)>>

\* faulty variant: the queue is run before the revert instead of after it
ApplyUpdateDisposeCmdsRunFirst(o) == <<RunCmd, RevertUpdateCmd(o)>>

ApplyUpdateDisposeCmds(o) == <<RevertUpdateCmd(o), RunCmd>>

ApplyUpdate(o, fn) ==
    /\ CanIssue(o)
    /\ kind' = [kind EXCEPT ![o] = "update"]
    /\ status' = [status EXCEPT ![o] = "applied"]
    /\ optimisticUpdater' = [optimisticUpdater EXCEPT ![o] = fn]
    /\ Perform(o, ApplyUpdateCmds(o, fn))
    /\ UNCHANGED <<isDisposed, updater, delivered, warned, disposeCalls>>

CommitPayloadCmds(data) ==
    <<CommitPayloadCmd(normalizeRelayPayload(data), Null), RunCmd>>

CommitPayload(data) ==
    /\ Perform(0, CommitPayloadCmds(data))
    /\ UNCHANGED <<kind, status, isDisposed, optimisticUpdater, updater,
                   delivered, warned, disposeCalls>>

\* --------------------------------------------------------------- sendQuery
SendQuery(o) ==
    /\ CanIssue(o)
    /\ kind' = [kind EXCEPT ![o] = "query"]
    /\ status' = [status EXCEPT ![o] = "pending"]
    /\ Perform(o, <<>>)
    /\ UNCHANGED <<isDisposed, optimisticUpdater, updater, delivered,
                   warned, disposeCalls>>

\* faulty variant: the .then callback does not look at isDisposed
SendQueryThenCmdsUnguarded(o, payload, throwAt) ==
    <<CommitPayloadCmd(payload, Null), RunCmd, CallbackCmd("onNext")>>
      \o (IF throwAt = "onNext" THEN <<>> ELSE <<CallbackCmd("onCompleted")>>)

\* faulty variant: the callbacks are invoked before the payload is committed
SendQueryThenCmdsCallbacksFirst(o, payload, throwAt) ==
    IF isDisposed[o] THEN <<>>
    ELSE <<CallbackCmd("onNext"), CallbackCmd("onCompleted"),
           CommitPayloadCmd(payload, Null), RunCmd>>

\* the .then callback; throwAt names the caller's callback that throws
SendQueryThenCmds(o, payload, throwAt) ==
    IF isDisposed[o] THEN <<>>
    ELSE <<CommitPayloadCmd(payload, Null), RunCmd, CallbackCmd("onNext")>>
           \o (IF throwAt = "onNext" THEN <<>>
               ELSE <<CallbackCmd("onCompleted")>>)

\* the .catch callback
SendQueryCatchCmds(o) ==
    IF isDisposed[o] THEN <<>> ELSE <<CallbackCmd("onError")>>

\* ------------------------------------------------------------ sendMutation
\* faulty variant: the optimistic update is queued but the queue is not run
SendMutationCmdsNoRun(o, optimistic) ==
    IF optimistic # Null THEN <<ApplyUpdateCmd(o, optimistic)>> ELSE <<>>

SendMutationCmds(o, optimistic) ==
    IF optimistic # Null THEN <<ApplyUpdateCmd(o, optimistic), RunCmd>>
    ELSE <<>>

\* faulty variant: the request is issued before the optimistic update
SendMutationRequestAtOnce(o, optimistic) == 0

\* the number of queue calls sendMutation has made when it calls
\* this._network.request
SendMutationRequestAt(o, optimistic) == Len(SendMutationCmds(o, optimistic))

\* what the store of world w shows of the optimistic update of o
StoreShows(w, o) ==
    IF Queued(w, o) /\ Layered(w) THEN "optimistic" ELSE "plain"

IssueMutation(o, optimistic, upd) ==
    /\ CanIssue(o)
    /\ kind' = [kind EXCEPT ![o] = "mutation"]
    /\ status' = [status EXCEPT ![o] = "pending"]
    /\ optimisticUpdater' = [optimisticUpdater EXCEPT ![o] = optimistic]
    /\ updater' = [updater EXCEPT ![o] = upd]
    /\ PerformCmds(o, SendMutationCmds(o, optimistic))
    /\ requestSaw' = [requestSaw EXCEPT ![o] =
          StoreShows(Exec(publishQueue,
                          SubSeq(SendMutationCmds(o, optimistic), 1,
                                 SendMutationRequestAt(o, optimistic)),
                          0, FALSE), o)]
    /\ UNCHANGED <<isDisposed, delivered, warned, disposeCalls>>

SendMutation(o, optimistic, upd) ==
    /\ IssueMutation(o, optimistic, upd)
    /\ UNCHANGED config

\* commitRelayStaticMutation: sendMutation with the caller's updaters and
\* onError and with an onCompleted of its own; onCompleted tells whether the
\* caller's config has one
CommitRelayStaticMutation(o, optimistic, upd, onCompleted) ==
    /\ IssueMutation(o, optimistic, upd)
    /\ config' = [config EXCEPT ![o] = onCompleted]

\* faulty variant: dispose only sets the flag and leaves the entry queued
SendMutationDisposeCmdsNoRevert(o) == <<>>

SendMutationDisposeCmds(o) ==
    IF optimisticUpdater[o] # Null THEN <<RevertUpdateCmd(o), RunCmd>>
    ELSE <<>>

\* faulty variant: the .then callback does not look at isDisposed
SendMutationThenCmdsUnguarded(o, payload) ==
    (IF optimisticUpdater[o] # Null THEN <<RevertUpdateCmd(o)>> ELSE <<>>)
      \o <<CommitPayloadCmd(payload, updater[o]), RunCmd,
           CallbackCmd("onCompleted")>>

\* faulty variant: the queue is not run after the commit
SendMutationThenCmdsNoRun(o, payload) ==
    IF isDisposed[o] THEN <<>>
    ELSE (IF optimisticUpdater[o] # Null THEN <<RevertUpdateCmd(o)>> ELSE <<>>)
           \o <<CommitPayloadCmd(payload, updater[o]),
                CallbackCmd("onCompleted")>>

\* faulty variant: the response is committed on top of the optimistic entry
SendMutationThenCmdsNoRevert(o, payload) ==
    IF isDisposed[o] THEN <<>>
    ELSE <<CommitPayloadCmd(payload, updater[o]), RunCmd,
           CallbackCmd("onCompleted")>>

\* faulty variant: onCompleted is invoked before the response is committed
SendMutationThenCmdsCallbackFirst(o, payload) ==
    IF isDisposed[o] THEN <<>>
    ELSE <<CallbackCmd("onCompleted")>>
           \o (IF optimisticUpdater[o] # Null THEN <<RevertUpdateCmd(o)>>
               ELSE <<>>)
           \o <<CommitPayloadCmd(payload, updater[o]), RunCmd>>

\* faulty variant: the queue is run between the revert and the commit
SendMutationThenCmdsRunBetween(o, payload) ==
    IF isDisposed[o] THEN <<>>
    ELSE (IF optimisticUpdater[o] # Null THEN <<RevertUpdateCmd(o), RunCmd>>
          ELSE <<>>)
           \o <<CommitPayloadCmd(payload, updater[o]), RunCmd,
                CallbackCmd("onCompleted")>>

\* faulty variant: settlement reverts every optimistic entry in the queue
SendMutationThenCmdsRevertAll(o, payload) ==
    IF isDisposed[o] THEN <<>>
    ELSE [p \in 1..NumOps |-> RevertUpdateCmd(p)]
           \o <<CommitPayloadCmd(payload, updater[o]), RunCmd,
                CallbackCmd("onCompleted")>>

SendMutationThenCmds(o, payload) ==
    IF isDisposed[o] THEN <<>>
    ELSE (IF optimisticUpdater[o] # Null THEN <<RevertUpdateCmd(o)>> ELSE <<>>)
           \o <<CommitPayloadCmd(payload, updater[o]), RunCmd,
                CallbackCmd("onCompleted")>>

\* faulty variant: the entry is reverted but the queue is not run
SendMutationCatchCmdsNoRun(o) ==
    IF isDisposed[o] THEN <<>>
    ELSE (IF optimisticUpdater[o] # Null THEN <<RevertUpdateCmd(o)>> ELSE <<>>)
           \o <<CallbackCmd("onError")>>

\* faulty variant: the .catch callback leaves the optimistic entry queued
SendMutationCatchCmdsNoRevert(o) ==
    IF isDisposed[o] THEN <<>> ELSE <<RunCmd, CallbackCmd("onError")>>

SendMutationCatchCmds(o) ==
    IF isDisposed[o] THEN <<>>
    ELSE (IF optimisticUpdater[o] # Null THEN <<RevertUpdateCmd(o)>> ELSE <<>>)
           \o <<RunCmd, CallbackCmd("onError")>>

\* ---------------------------------------------------- sendQuerySubscription
SendQuerySubscription(o) ==
    /\ CanIssue(o)
    /\ kind' = [kind EXCEPT ![o] = "subscription"]
    /\ status' = [status EXCEPT ![o] = "pending"]
    /\ Perform(o, <<>>)
    /\ UNCHANGED <<isDisposed, optimisticUpdater, updater, delivered,
                   warned, disposeCalls>>

\* the onNext observer sendQuerySubscription hands to the network
SubscriptionOnNextCmds(payload) ==
    <<CommitPayloadCmd(payload, Null), RunCmd, CallbackCmd("onNext")>>

\* faulty variant: the callback goes on after reporting a payload that could
\* not be normalized
RequestSubscriptionThenCmdsNoReturn(o, norm, throwAt) ==
    IF isDisposed[o] THEN <<>>
    ELSE (IF ~norm.ok THEN <<CallbackCmd("onError")>> ELSE <<>>)
           \o SubscriptionOnNextCmds(norm.payload)
           \o <<CallbackCmd("onCompleted")>>

\* requestSubscription's fulfilment callback
RequestSubscriptionThenCmds(o, norm, throwAt) ==
    IF isDisposed[o] THEN <<>>
    ELSE IF ~norm.ok THEN <<CallbackCmd("onError")>>
    ELSE SubscriptionOnNextCmds(norm.payload)
           \o (IF throwAt = "onNext" THEN <<>>
               ELSE <<CallbackCmd("onCompleted")>>)

\* requestSubscription's rejection callback
RequestSubscriptionCatchCmds(o) ==
    IF isDisposed[o] THEN <<>> ELSE <<CallbackCmd("onError")>>

\* ------------------------------------------------------------------ dispose
CanDispose(o, k) ==
    /\ kind[o] = k
    /\ disposeCalls < MaxDispose

Disposed(o) ==
    /\ disposeCalls' = disposeCalls + 1
    /\ UNCHANGED <<kind, status, updater, delivered, warned>>

ApplyUpdateDispose(o) ==
    /\ CanDispose(o, "update")
    /\ Perform(o, ApplyUpdateDisposeCmds(o))
    /\ Disposed(o)
    /\ UNCHANGED <<isDisposed, optimisticUpdater>>

SendQueryDispose(o) ==
    /\ CanDispose(o, "query")
    /\ isDisposed' = [isDisposed EXCEPT ![o] = TRUE]
    /\ Perform(o, <<>>)
    /\ Disposed(o)
    /\ UNCHANGED optimisticUpdater

SendMutationDispose(o) ==
    /\ CanDispose(o, "mutation")
    /\ Perform(o, SendMutationDisposeCmds(o))
    /\ optimisticUpdater' = [optimisticUpdater EXCEPT ![o] = Null]
    /\ isDisposed' = [isDisposed EXCEPT ![o] = TRUE]
    /\ Disposed(o)

RequestSubscriptionDispose(o) ==
    /\ CanDispose(o, "subscription")
    /\ isDisposed' = [isDisposed EXCEPT ![o] = TRUE]
    /\ Perform(o, <<>>)
    /\ Disposed(o)
    /\ UNCHANGED optimisticUpdater

\* ---------------------------------------------------------------- transport
ThrowPoints == {"none", "onCompleted"}

\* where the chain stands after the .then callback ran
AfterThen(o, throwAt) ==
    IF isDisposed[o] THEN "dropped"
    ELSE IF throwAt = "none" THEN "completed" ELSE "thrown"

\* where the chain stands after the .catch callback ran
AfterCatch(o) ==
    IF isDisposed[o]
    THEN (IF status[o] = "thrown" THEN "suppressed" ELSE "dropped")
    ELSE "failed"

\* the promise of Network.request rejected with err: the .catch callback
Rejected(o, err, cmds) ==
    /\ Perform(o, cmds)
    /\ status' = [status EXCEPT ![o] = AfterCatch(o)]
    /\ delivered' = IF isDisposed[o] THEN delivered
                    ELSE [delivered EXCEPT ![o] = err]

\* the promise of Network.request fulfilled: the .then callback
Fulfilled(o, cmds, throwAt) ==
    /\ Perform(o, cmds)
    /\ status' = [status EXCEPT ![o] =
          AfterThen(o, IF Executed(publishQueue, cmds) # cmds THEN "run"
                       ELSE throwAt)]
    /\ UNCHANGED delivered

\* Network.request: fetch, then normalizePayload, then the chain
Request(o, norm, thenCmds, catchCmds, throwAt) ==
    /\ warned' = [warned EXCEPT ![o] = norm.warned]
    /\ IF norm.ok THEN Fulfilled(o, thenCmds, throwAt)
       ELSE Rejected(o, norm.error, catchCmds)

SendQueryResolve(o, raw, throwAt) ==
    /\ kind[o] = "query" /\ status[o] = "pending"
    /\ Request(o, normalizePayload(o, Variables(o), raw),
               SendQueryThenCmds(o, normalizePayload(o, Variables(o), raw).payload, throwAt),
               SendQueryCatchCmds(o), throwAt)
    /\ UNCHANGED <<kind, isDisposed, optimisticUpdater, updater, disposeCalls>>

SendQueryReject(o) ==
    /\ kind[o] = "query" /\ status[o] = "pending"
    /\ Rejected(o, TransportError, SendQueryCatchCmds(o))
    /\ UNCHANGED <<kind, isDisposed, optimisticUpdater, updater, warned,
                   disposeCalls>>

SendQueryCatch(o) ==
    /\ kind[o] = "query" /\ status[o] = "thrown"
    /\ Rejected(o, CallbackError, SendQueryCatchCmds(o))
    /\ UNCHANGED <<kind, isDisposed, optimisticUpdater, updater, warned,
                   disposeCalls>>

SendMutationResolve(o, raw, throwAt) ==
    /\ kind[o] = "mutation" /\ status[o] = "pending"
    /\ throwAt # "onNext"
    /\ Request(o, normalizePayload(o, Variables(o), raw),
               SendMutationThenCmds(o, normalizePayload(o, Variables(o), raw).payload),
               SendMutationCatchCmds(o), throwAt)
    /\ UNCHANGED <<kind, isDisposed, optimisticUpdater, updater, disposeCalls>>

SendMutationReject(o) ==
    /\ kind[o] = "mutation" /\ status[o] = "pending"
    /\ Rejected(o, TransportError, SendMutationCatchCmds(o))
    /\ UNCHANGED <<kind, isDisposed, optimisticUpdater, updater, warned,
                   disposeCalls>>

\* what the .then callback of mutation o threw
ThrownError(o) ==
    IF updater[o] = FaultyUpdater THEN UpdaterError ELSE CallbackError

SendMutationCatch(o) ==
    /\ kind[o] = "mutation" /\ status[o] = "thrown"
    /\ Rejected(o, ThrownError(o), SendMutationCatchCmds(o))
    /\ UNCHANGED <<kind, isDisposed, optimisticUpdater, updater, warned,
                   disposeCalls>>

\* requestSubscription: fetch(...).then(onFulfilled, onRejected); a throw of
\* the caller's callbacks is not caught by onRejected
RequestSubscriptionResolve(o, raw, throwAt) ==
    LET norm == normalizePayload(o, Variables(o), raw)
    IN /\ kind[o] = "subscription" /\ status[o] = "pending"
       /\ Perform(o, RequestSubscriptionThenCmds(o, norm, throwAt))
       /\ warned' = IF isDisposed[o] THEN warned
                    ELSE [warned EXCEPT ![o] = norm.warned]
       /\ status' = [status EXCEPT ![o] =
                        IF isDisposed[o] THEN "dropped"
                        ELSE IF ~norm.ok THEN "failed"
                        ELSE IF throwAt = "none" THEN "completed"
                        ELSE "uncaught"]
       /\ delivered' = IF isDisposed[o] \/ norm.ok THEN delivered
                       ELSE [delivered EXCEPT ![o] = norm.error]
       /\ UNCHANGED <<kind, isDisposed, optimisticUpdater, updater,
                      disposeCalls>>

RequestSubscriptionReject(o) ==
    /\ kind[o] = "subscription" /\ status[o] = "pending"
    /\ Rejected(o, TransportError, RequestSubscriptionCatchCmds(o))
    /\ UNCHANGED <<kind, isDisposed, optimisticUpdater, updater, warned,
                   disposeCalls>>

\* ------------------------------------------------------------ specification
Next ==
    \/ \E o \in Ops : \E fn \in UpdateUpdaters(o) : ApplyUpdate(o, fn)
    \/ \E o \in Ops : ApplyUpdateDispose(o)
    \/ \E o \in Ops : SendQuery(o)
    \/ \E o \in Ops : SendQueryDispose(o)
    \/ \E o \in Ops, raw \in QueryResponses, t \in ThrowPoints :
          SendQueryResolve(o, raw, t)
    \/ \E o \in Ops : SendQueryReject(o)
    \/ \E o \in Ops : SendQueryCatch(o)
    \/ \E o \in Ops : \E u \in MutationUpdaters(o) : SendMutation(o, u[1], u[2])
    \/ \E o \in Ops : SendMutationDispose(o)
    \/ \E o \in Ops, raw \in MutationResponses, t \in ThrowPoints :
          SendMutationResolve(o, raw, t)
    \/ \E o \in Ops : SendMutationReject(o)
    \/ \E o \in Ops : SendMutationCatch(o)
    \/ \E o \in Ops : SendQuerySubscription(o)
    \/ \E o \in Ops : RequestSubscriptionDispose(o)
    \/ \E o \in Ops, raw \in QueryResponses, t \in ThrowPoints :
          RequestSubscriptionResolve(o, raw, t)
    \/ \E o \in Ops : RequestSubscriptionReject(o)

\* the lifecycles, with direct commits through Environment.commitPayload
NextCommit ==
    \/ Next
    \/ \E data \in DirectData : CommitPayload(data)

\* the lifecycles, with mutations whose updater throws
NextThrow ==
    \/ Next
    \/ \E o \in Ops : \E u \in FaultyMutationUpdaters(o) :
          SendMutation(o, u[1], u[2])

\* mutations issued through commitRelayStaticMutation
ConfigOnCompleted == {"supplied", "absent"}

\* the updaters a caller passes in its config: optimisticUpdater or none
StaticUpdaters(o) == {u \in MutationUpdaters(o) : u[2] = Null}

NextStatic ==
    \/ \E o \in Ops, c \in ConfigOnCompleted :
          \E u \in StaticUpdaters(o) :
              CommitRelayStaticMutation(o, u[1], u[2], c)
    \/ \E o \in Ops : SendMutationDispose(o)
    \/ \E o \in Ops, raw \in MutationResponses, t \in ThrowPoints :
          SendMutationResolve(o, raw, t)
    \/ \E o \in Ops : SendMutationCatch(o)

\* queries and mutations whose callbacks return, answered with every raw
\* response
NextNet ==
    \/ \E o \in Ops : SendQuery(o)
    \/ \E o \in Ops : SendQueryDispose(o)
    \/ \E o \in Ops, raw \in QueryRawResponses :
          SendQueryResolve(o, raw, "none")
    \/ \E o \in Ops : \E u \in MutationUpdaters(o) : SendMutation(o, u[1], u[2])
    \/ \E o \in Ops : SendMutationDispose(o)
    \/ \E o \in Ops, raw \in MutationRawResponses :
          SendMutationResolve(o, raw, "none")

\* ---------------------------------------------------- the queue on its own
\* The queue mutations a caller of RelayPublishQueue can make.  An update
\* reference is applied only while it is not queued.
BatchCmds ==
    {ApplyUpdateCmd(o, fn) : o \in Ops, fn \in UpdaterFns}
      \cup {RevertUpdateCmd(o) : o \in Ops}
      \cup {CommitPayloadCmd(normalizeRelayPayload(d), u) :
               d \in DataValues, u \in {Null, "inc"}}

\* one queue mutation, made on the queue without running it
QueueMutation(cmd) ==
    /\ Len(batch) < MaxBatch
    /\ \A o \in Ops : kind[o] = "none"
    /\ cmd.c = "applyUpdate" =>
          \A i \in 1..Len(publishQueue.entries) :
              publishQueue.entries[i].ref # cmd.ref
    /\ batch' = Append(batch, cmd)
    /\ publishQueue' = ExecCmd(publishQueue, cmd, 0, FALSE)
    /\ eager' = ExecCmd(eager, cmd, 0, TRUE)
    /\ UNCHANGED <<kind, status, isDisposed, optimisticUpdater, updater, log,
                   delivered, warned, disposeCalls, ghost, requestSaw,
                   config, snapshot>>

\* the lifecycles, or else a batch of queue mutations from the start
NextBatch ==
    \/ batch = <<>> /\ Next
    \/ \E cmd \in BatchCmds : QueueMutation(cmd)

Spec == Init /\ [][Next]_vars

SpecBatch == Init /\ [][NextBatch]_vars

SpecCommit == Init /\ [][NextCommit]_vars

SpecNet == Init /\ [][NextNet]_vars

SpecThrow == Init /\ [][NextThrow]_vars

SpecStatic == Init /\ [][NextStatic]_vars

\* ============================================================== properties
Callbacks == {"onNext", "onCompleted", "onError"}

RECURSIVE Count(_, _)
Count(seq, x) ==
    IF seq = <<>> THEN 0
    ELSE (IF Head(seq) = x THEN 1 ELSE 0) + Count(Tail(seq), x)

Occurs(seq, x) == \E i \in 1..Len(seq) : seq[i] = x

IsPrefix(p, seq) == Len(p) <= Len(seq) /\ SubSeq(seq, 1, Len(p)) = p

\* the optimistic entry of operation o is in the publish queue
InQueue(o) ==
    \E i \in 1..Len(publishQueue.entries) :
        /\ publishQueue.entries[i].kind = "optimisticUpdate"
        /\ publishQueue.entries[i].ref = o

\* o is a sendMutation call that was given an optimistic updater
OptimisticMutation(o) ==
    kind[o] = "mutation" /\ IsPrefix(<<"applyUpdate", "run">>, log[o])

\* o was disposed while its transport was still pending
DisposedBeforeSettle(o) ==
    isDisposed[o] /\ status[o] \in {"pending", "dropped"}

\* C1: a mutation with an optimistic updater that is disposed before its
\* transport settles has reverted its optimistic entry and run the queue, and
\* when the transport then resolves or rejects the operation does nothing
\* more: no revertUpdate, commitPayload or run, no onCompleted, no onError.
C1_DisposedMutationInert ==
    \A o \in Ops :
        (OptimisticMutation(o) /\ DisposedBeforeSettle(o)) =>
            /\ log[o] = <<"applyUpdate", "run", "revertUpdate", "run">>
            /\ delivered[o] = NoError
            /\ ~InQueue(o)

C1_Witness ==
    \E o \in Ops :
        /\ OptimisticMutation(o)
        /\ status[o] = "dropped"
        /\ log[o] = <<"applyUpdate", "run", "revertUpdate", "run">>

\* C2: a query disposed before its transport future settles has committed
\* nothing, run nothing and invoked none of onNext, onCompleted, onError,
\* also after the future resolved or rejected.
C2_DisposedQueryInert ==
    \A o \in Ops :
        (kind[o] = "query" /\ DisposedBeforeSettle(o)) =>
            /\ log[o] = <<>>
            /\ delivered[o] = NoError

C2_Witness ==
    \E o \in Ops :
        kind[o] = "query" /\ status[o] = "dropped" /\ log[o] = <<>>

\* the confirmed likeCount after the response of mutation o was committed
CommittedLikeCount(o) == IF updater[o] = "inc" THEN 43 ELSE 42

\* no mutation other than o has committed a response
OnlyCommit(o) ==
    \A p \in Ops \ {o} :
        ~(kind[p] = "mutation" /\ Occurs(log[p], "commitPayload"))

\* the store is the confirmed base with the queued optimistic entries on top
Flushed ==
    /\ publishQueue.store =
          FoldEntries(publishQueue.base, publishQueue.entries, "optimisticUpdate")
    /\ \A i \in 1..Len(publishQueue.entries) :
          publishQueue.entries[i].kind = "optimisticUpdate"

\* the transport of o resolved with data while o was not disposed (the
\* .then callback ran to onCompleted, which may have thrown since)
ResolvedWithData(o) ==
    \/ status[o] \in {"completed", "thrown", "suppressed"}
    \/ status[o] = "failed" /\ delivered[o] = CallbackError

\* C3: when the transport of a mutation with optimistic updater U resolves
\* with data and the operation is not disposed, U is reverted, the response
\* is committed with the caller's updater, the queue is run and then
\* onCompleted is invoked, in that order; the store is then the confirmed
\* base plus the server payload, with the other operations' optimistic
\* entries on top and nothing of U: the world is the one in which U was
\* never applied, and likeCount is the server's 42 (updater applied).
C3_SuccessPath ==
    \A o \in Ops :
        (OptimisticMutation(o) /\ ResolvedWithData(o)) =>
            /\ IsPrefix(<<"applyUpdate", "run", "revertUpdate", "commitPayload",
                          "run", "onCompleted">>, log[o])
            /\ Count(log[o], "commitPayload") = 1
            /\ Count(log[o], "onCompleted") = 1
            /\ ~InQueue(o)
            /\ Flushed
            /\ publishQueue = ghost[o]
            /\ OnlyCommit(o) =>
                  publishQueue.base["likeCount"] = CommittedLikeCount(o)

C3_Witness ==
    \E o \in Ops :
        /\ OptimisticMutation(o)
        /\ status[o] = "completed"
        /\ optimisticUpdater[o] = "inc"
        /\ publishQueue.entries = <<>>
        /\ publishQueue.store["likeCount"] = 42

\* the transport of o rejected (fetch failed or no data came back) while o
\* was not disposed
TransportFailed(o) ==
    /\ status[o] = "failed"
    /\ delivered[o] # CallbackError

\* C4: when the transport of a mutation with an optimistic updater rejects
\* and the operation is not disposed, the optimistic entry is reverted and
\* the queue run before onError is invoked, the world is afterwards the one
\* in which the optimistic update was never applied, and onError is invoked
\* exactly once, with the rejection reason.
C4_FailurePath ==
    \A o \in Ops :
        (OptimisticMutation(o) /\ TransportFailed(o)) =>
            /\ IsPrefix(<<"applyUpdate", "run", "revertUpdate", "run", "onError">>,
                        log[o])
            /\ Count(log[o], "onError") = 1
            /\ Count(log[o], "onCompleted") = 0
            /\ Count(log[o], "commitPayload") = 0
            /\ delivered[o] \in
                  {TransportError, normalizePayload(o, Variables(o), NoDataResponse).error}
            /\ ~InQueue(o)
            /\ Flushed
            /\ publishQueue = ghost[o]

C4_Witness ==
    \E o \in Ops :
        /\ OptimisticMutation(o)
        /\ TransportFailed(o)
        /\ delivered[o] = TransportError
        /\ publishQueue.store = InitialRecords

\* C5: the optimistic entry of a mutation is in the publish queue, once,
\* exactly while the operation awaits its response and is not disposed: it
\* is gone once the operation is committed, rolled back by a transport
\* error, or disposed.
C5_EntryWhileAwaiting ==
    \A o \in Ops :
        OptimisticMutation(o) =>
            /\ InQueue(o) <=> (status[o] = "pending" /\ ~isDisposed[o])
            /\ Cardinality({i \in 1..Len(publishQueue.entries) :
                              publishQueue.entries[i].ref = o}) <= 1

C5_Witness ==
    \E o, p \in Ops :
        /\ OptimisticMutation(o) /\ OptimisticMutation(p)
        /\ status[o] = "pending" /\ ~isDisposed[o] /\ InQueue(o)
        /\ status[p] \in {"completed", "failed"} /\ ~InQueue(p)

\* o has left the window in which it awaits its response
Left(o) == status[o] # "pending" \/ isDisposed[o]

\* C6 as stated: revertUpdate is issued for the optimistic entry of a
\* mutation exactly once, on the terminal transition, and never again,
\* whatever settlements and dispose calls follow.
C6_RevertIssuedOnce ==
    \A o \in Ops :
        OptimisticMutation(o) =>
            /\ Count(log[o], "revertUpdate") <= 1
            /\ Left(o) => Count(log[o], "revertUpdate") = 1

\* C6 as amended: revertUpdate is first issued on the terminal transition
\* (a settlement while not disposed, or dispose) and that call removes the
\* entry; the .catch callback after a throwing onCompleted and the first
\* dispose after a settlement issue it again for the same updater, three
\* calls at most, and each later call finds no entry in the queue.
C6_RevertRemovesOnce ==
    \A o \in Ops :
        OptimisticMutation(o) =>
            /\ ~Left(o) => (Count(log[o], "revertUpdate") = 0 /\ InQueue(o))
            /\ Left(o) => (Count(log[o], "revertUpdate") \in 1..3 /\ ~InQueue(o))

C6_Witness ==
    \E o \in Ops :
        /\ OptimisticMutation(o)
        /\ status[o] = "completed"
        /\ isDisposed[o]
        /\ Count(log[o], "revertUpdate") = 2

\* o has reached terminal resolution: its callbacks have fired
Terminal(o) == status[o] \in {"completed", "failed"}

CallbackLog(l) == SelectSeq(l, LAMBDA e : e \in Callbacks)

\* a step that leaves the queue, the store and the callbacks invoked alone
Unobservable ==
    /\ publishQueue' = publishQueue
    /\ \A p \in Ops : CallbackLog(log'[p]) = CallbackLog(log[p])
    /\ delivered' = delivered
    /\ status' = status

\* C7: disposing the handle of a query or mutation after it has reached
\* terminal resolution changes neither the entries of the publish queue nor
\* the store and invokes no callback, whatever else is in flight.
C7_DisposeAfterTerminal ==
    [][\A o \in Ops :
          (Terminal(o) /\ (SendQueryDispose(o) \/ SendMutationDispose(o)))
            => Unobservable]_vars

C7_Witness ==
    \E o, p \in Ops :
        /\ OptimisticMutation(o)
        /\ status[o] = "completed"
        /\ isDisposed[o]
        /\ OptimisticMutation(p)
        /\ status[p] = "pending" /\ InQueue(p)

\* dispose was called on the handle of o before
AlreadyDisposed(o) ==
    IF kind[o] = "update" THEN Occurs(log[o], "revertUpdate")
    ELSE isDisposed[o]

\* C8: a second dispose on a handle returned by sendQuery, sendMutation,
\* requestSubscription or applyUpdate leaves the publish queue, the store,
\* the callbacks invoked and the closure's flags as the first one left them.
C8_DisposeTwice ==
    [][\A o \in Ops :
          (AlreadyDisposed(o)
             /\ (\/ ApplyUpdateDispose(o) \/ SendQueryDispose(o)
                 \/ SendMutationDispose(o) \/ RequestSubscriptionDispose(o)))
            => (/\ Unobservable
                /\ isDisposed' = isDisposed
                /\ optimisticUpdater' = optimisticUpdater)]_vars

C8_Witness ==
    \E o \in Ops :
        /\ kind[o] = "update"
        /\ Count(log[o], "revertUpdate") = 2
        /\ publishQueue.store # InitialRecords

\* C9: once the handle of an update applied through Environment.applyUpdate
\* is disposed, the queue and the store are those reached by the same
\* operations with the update never applied, whatever commits and
\* optimistic updates of other operations came in between.
C9_RollbackExact ==
    \A o \in Ops :
        (kind[o] = "update" /\ Occurs(log[o], "revertUpdate")) =>
            /\ publishQueue = ghost[o]
            /\ Flushed

C9_Witness ==
    \E o, p \in Ops :
        /\ kind[o] = "update" /\ Occurs(log[o], "revertUpdate")
        /\ p > o /\ OptimisticMutation(p) /\ InQueue(p)
        /\ publishQueue.base["viewCount"] = 7
        /\ publishQueue.store # publishQueue.base

\* C10: running the queue after every queue mutation and running it once
\* after a batch of mutations give the same queue and the same store: for
\* every batch of applyUpdate, revertUpdate and commitPayload calls, and
\* for the batches the handlers make, of which the success path of a
\* mutation (revertUpdate, commitPayload, one run) is one.
C10_RunBatching ==
    /\ QueueRun(publishQueue) = eager
    /\ batch = <<>> => publishQueue = eager

C10_Witness ==
    /\ Len(batch) = MaxBatch
    /\ batch[1].c = "applyUpdate"
    /\ batch[2].c = "revertUpdate" /\ batch[2].ref = batch[1].ref
    /\ batch[3].c = "commitPayload" /\ batch[3].fn = "inc"
    /\ publishQueue.store = InitialRecords
    /\ eager.store["likeCount"] = 43

\* a handler of mutation o runs: its .then or .catch callback, or a dispose
\* that sets its flag or touches the queue
MutationStep(o) ==
    /\ kind[o] = "mutation"
    /\ \/ status'[o] # status[o]
       \/ isDisposed'[o] # isDisposed[o]
       \/ log'[o] # log[o]

\* the response of mutation o arrives with data while o is not disposed
Commits(o) ==
    status[o] = "pending" /\ status'[o] \in {"completed", "thrown"}

\* the optimistic entries of world w that are not the one of o
OtherEntries(w, o) ==
    SelectSeq(w.entries, LAMBDA e : e.kind = "optimisticUpdate" /\ e.ref # o)

\* the confirmed base once the response of mutation o is committed onto it
BaseAfter(o) ==
    ApplyFn(updater[o],
            PublishWrites(publishQueue.base, normalizeRelayPayload(MutationData)))

\* C11: with several mutations in flight, every settlement or disposal of
\* one mutation removes that mutation's optimistic entry and no other: the
\* entries of the other operations stay queued, in their order, and layered
\* on the store; a response with data is committed onto the confirmed base
\* as it stands when the response arrives, so commits land in arrival
\* order, and no other step of a mutation touches the base.
C11_OwnEntryOnly ==
    [][\A o \in Ops :
          MutationStep(o) =>
            /\ ~Queued(publishQueue', o)
            /\ OtherEntries(publishQueue', o) = OtherEntries(publishQueue, o)
            /\ Layered(publishQueue')
            /\ publishQueue'.base =
                  IF Commits(o) THEN BaseAfter(o) ELSE publishQueue.base]_vars

\* both mutations were optimistic and in flight together; the second one
\* issued was answered first, and the base holds the commit of the first
C11_Witness ==
    /\ OptimisticMutation(1) /\ OptimisticMutation(2)
    /\ status[1] = "completed" /\ status[2] = "completed"
    /\ updater[1] = "inc" /\ updater[2] = Null
    /\ publishQueue.base["likeCount"] = 43

\* C12: when sendMutation is given an optimistic updater, the updater has
\* been applied to the queue and the queue run, so that the store shows the
\* optimistic state, by the time the transport request is issued.
C12_OptimisticBeforeRequest ==
    \A o \in Ops :
        /\ OptimisticMutation(o) => requestSaw[o] = "optimistic"
        /\ (kind[o] = "mutation" /\ ~OptimisticMutation(o)) =>
              requestSaw[o] = "plain"

C12_Witness ==
    \E o \in Ops :
        /\ OptimisticMutation(o)
        /\ status[o] = "pending" /\ InQueue(o)
        /\ requestSaw[o] = "optimistic"
        /\ publishQueue.store # publishQueue.base

IsSuffix(p, seq) ==
    Len(p) <= Len(seq) /\ SubSeq(seq, Len(seq) - Len(p) + 1, Len(seq)) = p

\* the raw response raw arrives for query or mutation o
ResponseArrives(o, raw) ==
    /\ status[o] = "pending" /\ status'[o] # "pending"
    /\ \E t \in ThrowPoints :
          SendQueryResolve(o, raw, t) \/ SendMutationResolve(o, raw, t)

\* the queue calls and callbacks of the success path of o
SuccessCalls(o) ==
    IF kind[o] = "query"
    THEN <<"commitPayload", "run", "onNext", "onCompleted">>
    ELSE <<"commitPayload", "run", "onCompleted">>

\* C13: when the raw response of a query or mutation has no data, with its
\* errors present, empty or absent, normalizePayload throws an error whose
\* source holds the errors of the response, the operation and the
\* variables; the operation commits nothing, the confirmed base is left as
\* it was, and unless the operation was disposed the error is handed to
\* onError, once and as the last thing the operation does, with neither
\* onNext nor onCompleted invoked.
C13_NoDataRejects ==
    [][\A o \in Ops, raw \in RawResponses :
          (~raw.hasData /\ ResponseArrives(o, raw)) =>
            LET norm == normalizePayload(o, Variables(o), raw)
            IN /\ ~norm.ok
               /\ norm.error.source =
                     [errors |-> raw.errors, operation |-> o,
                      variables |-> Variables(o)]
               /\ Count(log'[o], "commitPayload") = 0
               /\ publishQueue'.base = publishQueue.base
               /\ ~isDisposed[o] =>
                     /\ delivered'[o] = norm.error
                     /\ status'[o] = "failed"
                     /\ IsSuffix(<<"onError">>, log'[o])
                     /\ Count(log'[o], "onError") = 1
                     /\ Count(log'[o], "onNext") = 0
                     /\ Count(log'[o], "onCompleted") = 0
               /\ isDisposed[o] =>
                     (log'[o] = log[o] /\ delivered' = delivered)]_vars

C13_Witness ==
    \E o, p \in Ops :
        /\ kind[o] = "query" /\ status[o] = "failed"
        /\ delivered[o].source =
              [errors |-> [present |-> FALSE, list |-> <<>>], operation |-> o,
               variables |-> Variables(o)]
        /\ kind[p] = "mutation" /\ status[p] = "failed"
        /\ delivered[p].source.errors = [present |-> TRUE, list |-> <<>>]
        /\ delivered[p].source.variables = Variables(p)
        /\ publishQueue.base = InitialRecords

\* C14: when the raw response of a query or mutation has data and a
\* non-empty errors list, normalizePayload emits a warning and returns the
\* normalized data without throwing; unless the operation was disposed the
\* payload is committed (with the caller's updater) and the queue run, then
\* onCompleted is invoked (after onNext for a query), and the response puts
\* nothing through onError.
C14_DataWithErrorsCommits ==
    [][\A o \in Ops, raw \in RawResponses :
          (/\ raw.hasData
           /\ raw.errors.present /\ Len(raw.errors.list) > 0
           /\ ResponseArrives(o, raw)) =>
            LET norm == normalizePayload(o, Variables(o), raw)
            IN /\ norm.ok /\ norm.warned
               /\ norm.payload = normalizeRelayPayload(raw.data)
               /\ warned'[o]
               /\ ~isDisposed[o] =>
                     /\ IsSuffix(SuccessCalls(o), log'[o])
                     /\ Count(log'[o], "commitPayload") = 1
                     /\ Count(log'[o], "onCompleted") = 1
                     /\ Count(log'[o], "onError") = 0
                     /\ delivered'[o] = NoError
                     /\ status'[o] \in {"completed", "thrown"}
                     /\ publishQueue'.base =
                           ApplyFn(updater[o],
                                   PublishWrites(publishQueue.base, norm.payload))
                     /\ Layered(publishQueue')]_vars

C14_Witness ==
    \E o, p \in Ops :
        /\ kind[o] = "query" /\ warned[o] /\ status[o] = "completed"
        /\ kind[p] = "mutation" /\ warned[p] /\ status[p] = "completed"
        /\ delivered[o] = NoError /\ delivered[p] = NoError
        /\ publishQueue.store["viewCount"] = 7
        /\ publishQueue.store["likeCount"] \in {42, 43}

\* o was handed the error normalizePayload raises for a response without data
NoDataDelivered(o) == delivered[o].name = "RelayNetwork"

\* C19: when a response has no data and its errors list is absent or has no
\* entries, the message of the error raised carries the placeholder
\* "(No errors)" where the joined error messages would stand.
C19_PlaceholderWhenNoErrors ==
    \A o \in Ops :
        (NoDataDelivered(o) /\ Len(delivered[o].source.errors.list) = 0) =>
            delivered[o].detail = <<"(No errors)">>

\* C15 as stated: a query for which onError was invoked has performed no
\* commitPayload and no run and invoked neither onNext nor onCompleted, and
\* the error it was handed is the transport's or the no-data error.
C15_OnErrorOnlyOnFailure ==
    \A o \in Ops :
        (kind[o] = "query" /\ Occurs(log[o], "onError")) =>
            /\ Count(log[o], "commitPayload") = 0
            /\ Count(log[o], "run") = 0
            /\ Count(log[o], "onNext") = 0
            /\ Count(log[o], "onCompleted") = 0
            /\ delivered[o].name \in {"TransportError", "RelayNetwork"}

C20_AtMostOneTerminal ==
    \A o \in Ops :
        kind[o] = "mutation" =>
            Count(log[o], "onCompleted") + Count(log[o], "onError") <= 1

\* the commit of the response of mutation o failed: its updater threw
CommitFailed(o) ==
    /\ kind[o] = "mutation" /\ updater[o] = FaultyUpdater
    /\ Occurs(log[o], "commitPayload")
    /\ status[o] \in {"thrown", "failed", "suppressed"}

\* C18: when the commit of the successful response of a mutation with an
\* optimistic updater fails (its updater throws while the queue is run),
\* the optimistic entry is not in the queue, onCompleted is not invoked and
\* the confirmed base holds nothing of the failed commit; once the .catch
\* callback has run (the operation not having been disposed meanwhile) the
\* store is the base with the other operations' entries on top and onError
\* has been invoked exactly once, with the error thrown.
C18_CommitFailure ==
    \A o \in Ops :
        (OptimisticMutation(o) /\ CommitFailed(o)) =>
            /\ ~InQueue(o)
            /\ Count(log[o], "commitPayload") = 1
            /\ Count(log[o], "onCompleted") = 0
            /\ OnlyCommit(o) =>
                  publishQueue.base["likeCount"] = InitialRecords["likeCount"]
            /\ status[o] = "thrown" => Count(log[o], "onError") = 0
            /\ status[o] = "suppressed" =>
                  (isDisposed[o] /\ Count(log[o], "onError") = 0 /\ Flushed)
            /\ status[o] = "failed" =>
                  /\ Flushed
                  /\ publishQueue = ghost[o]
                  /\ Count(log[o], "onError") = 1
                  /\ IsPrefix(<<"applyUpdate", "run", "revertUpdate",
                                "commitPayload", "run", "revertUpdate", "run",
                                "onError">>, log[o])
                  /\ delivered[o] = UpdaterError

C18_Witness ==
    \E o \in Ops :
        /\ OptimisticMutation(o) /\ CommitFailed(o)
        /\ status[o] = "failed" /\ delivered[o] = UpdaterError
        /\ publishQueue.entries = <<>>
        /\ publishQueue.store = InitialRecords

\* the stores that readers are shown while the commands cmds are executed on
\* world w: one after every run
RECURSIVE Flushes(_, _)
Flushes(w, cmds) ==
    IF cmds = <<>> THEN <<>>
    ELSE LET w1 == ExecCmd(w, Head(cmds), 0, FALSE)
         IN (IF Head(cmds).c = "run" THEN <<w1.store>> ELSE <<>>)
              \o Flushes(w1, Tail(cmds))

\* C21: on the success path of a mutation the queue is not run between the
\* revert of the optimistic entry and the commit of the response: the
\* revert is followed at once by the commit, and wherever a mutation with
\* an optimistic updater awaits its response, with the store showing the
\* optimistic state, the .then callback shows readers one store only, the
\* one with the response committed and the optimistic entry gone.
C21_OneFlush ==
    \A o \in Ops :
        /\ (OptimisticMutation(o) /\ ResolvedWithData(o)) =>
              IsPrefix(<<"applyUpdate", "run", "revertUpdate", "commitPayload",
                         "run">>, log[o])
        /\ (OptimisticMutation(o) /\ status[o] = "pending" /\ ~isDisposed[o]) =>
              LET cmds == SendMutationThenCmds(o, normalizeRelayPayload(MutationData))
                  after == Exec(publishQueue, cmds, 0, FALSE)
              IN /\ Queued(publishQueue, o) /\ Layered(publishQueue)
                 /\ Flushes(publishQueue, cmds) = <<after.store>>
                 /\ after.base = BaseAfter(o)
                 /\ ~Queued(after, o) /\ Layered(after)

C21_Witness ==
    \E o, p \in Ops :
        /\ OptimisticMutation(o) /\ ~isDisposed[o]
        /\ log[o] = <<"applyUpdate", "run", "revertUpdate", "commitPayload",
                      "run", "onCompleted">>
        /\ OptimisticMutation(p) /\ status[p] = "pending" /\ InQueue(p)
        /\ publishQueue.base["likeCount"] \in {42, 43}
        /\ publishQueue.store # publishQueue.base

\* a queue call that leaves the queue to be run
QueueWrites == {"applyUpdate", "revertUpdate", "commitPayload"}

\* C22: whenever no handler is executing, the publish queue holds no commit
\* that was not processed and the store is the confirmed base with the
\* queued optimistic entries on top, in insertion order; every applyUpdate,
\* revertUpdate and commitPayload an operation issued was followed by run
\* before a callback was invoked or control returned.
C22_RunBeforeReturn ==
    /\ Flushed
    /\ \A o \in Ops :
          \A i \in 1..Len(log[o]) :
              log[o][i] \in QueueWrites =>
                  (i < Len(log[o]) /\ log[o][i + 1] \in QueueCmds)

C22_Witness ==
    \E o, p \in Ops :
        /\ kind[o] = "update" /\ InQueue(o)
        /\ OptimisticMutation(p) /\ p < o /\ status[p] = "completed"
        /\ publishQueue.base["viewCount"] = 7
        /\ publishQueue.store["likeCount"]
              = ApplyFn(optimisticUpdater[o], publishQueue.base)["likeCount"]
        /\ publishQueue.store # publishQueue.base

\* C23: in commitRelayStaticMutation the data handed to the caller's
\* onCompleted is looked up in the store in the step in which the response
\* is committed, after the optimistic entry was reverted, the payload
\* committed and the queue run: it is the store with the response in its
\* base and nothing of the optimistic update of the operation.  No other
\* step looks anything up, and no lookup is ever made for a caller that
\* supplied no onCompleted.
C23_LookupAfterCommit ==
    [][\A o \in Ops :
          IF kind[o] = "mutation" /\ config[o] = "supplied" /\ Commits(o)
          THEN /\ snapshot'[o] = [looked |-> TRUE, data |-> publishQueue'.store]
               /\ ~Queued(publishQueue', o)
               /\ Layered(publishQueue')
               /\ publishQueue'.base = BaseAfter(o)
          ELSE snapshot'[o] = snapshot[o]]_vars

C23_Witness ==
    \E o, p \in Ops :
        /\ config[o] = "supplied" /\ OptimisticMutation(o)
        /\ status[o] = "completed"
        /\ optimisticUpdater[o] = "inc" /\ updater[o] = Null
        /\ snapshot[o].looked /\ snapshot[o].data["likeCount"] = 42
        /\ config[p] = "absent" /\ status[p] = "completed"
        /\ ~snapshot[p].looked

====
